---- MODULE Spec2Model ----
(***************************************************************************)
(* Model of script.js, the theme controller of the dark/light mode toggle. *)
(*                                                                         *)
(* The page script is single threaded: every listener runs to completion,  *)
(* and the MutationObserver callback runs at the microtask checkpoint that *)
(* follows the listener which wrote the attribute.  Each handler of the    *)
(* script is a pure operator from page state to page state (a record), and *)
(* each action applies one handler to the current state.                   *)
(***************************************************************************)
EXTENDS Integers, Sequences, FiniteSets, TLC

VARIABLES
    phase,                \* "unloaded" | "loading" (init waits for DOMContentLoaded) | "ready"
    observing,            \* themeObserver.observe(htmlElement, ...) has run
    dataTheme,            \* htmlElement.getAttribute('data-theme')
    storedTheme,          \* localStorage.getItem('theme')
    themeIconOpacity,     \* themeIcon.style.opacity
    themeIconDarkOpacity, \* themeIconDark.style.opacity
    ariaLabel,            \* themeToggle aria-label attribute
    transform,            \* themeToggle.style.transform
    timers,               \* animateToggle timers scheduled and not yet fired
    bodyVisibility,       \* document.body.style.visibility
    bodyTransition,       \* document.body.style.transition
    loadState,            \* window load: "waiting" | "timer" (reset scheduled) | "done"
    pending,              \* mutation records queued for themeObserver
    events,               \* detail.theme of the themechange events dispatched by the last step
    prevented,            \* the last step called e.preventDefault()
    alerted,              \* theme shown by the last step's alert(), or NULL
    prefersDark,          \* matchMedia('(prefers-color-scheme: dark)').matches
    hidden,               \* document.hidden
    toggleCount,          \* toggleCount of the performance monitor
    \* ---- history of the run (not read by any handler) ----
    lastOp,               \* name of the last step
    lastArg,              \* theme the last step passed to setTheme, or NULL
    preTheme,             \* dataTheme before the last step
    preStored,            \* storedTheme before the last step
    pre2Theme,            \* dataTheme before the last two steps, when both toggled; else NA
    repeated,             \* the last two steps passed the same theme to setTheme
    extDirty,             \* another context wrote the slot since the last setTheme
    userChose,            \* a toggle activation happened since the slot was last cleared
    beforeReload,         \* dataTheme just before the reload, while nothing else intervened
    osApplied,            \* OS-driven applications since the slot was last emptied from outside (2: more than one)
    undelivered,          \* observed attribute writes made minus themechange events dispatched
    firstWrite            \* value of the oldest write among those delivered last or still queued, or NULL

prog == <<phase, observing, dataTheme, storedTheme, themeIconOpacity,
          themeIconDarkOpacity, ariaLabel, transform, timers, bodyVisibility,
          bodyTransition, loadState, pending, events, prevented, alerted,
          prefersDark, hidden, toggleCount>>
hist == <<lastOp, lastArg, preTheme, preStored, pre2Theme, repeated, extDirty, userChose,
          beforeReload, osApplied, undelivered, firstWrite>>
vars == <<prog, hist>>

(***************************************************************************)
(* Bounds.                                                                 *)
(***************************************************************************)
MaxPending == 2
MaxTimers == 2
MaxToggleCount == 2

(***************************************************************************)
(* Values.                                                                 *)
(***************************************************************************)
NULL == "null"                    \* JavaScript null: attribute or key absent
NA == "n/a"                       \* history: nothing recorded
Themes == {"light", "dark"}
Malformed == "blue"               \* a stored string that names no theme
StoredValues == {NULL, "", "light", "dark", Malformed}
InitialAttrs == {NULL, "light", "dark"}
Keys == {"Enter", " ", "Tab"}

\* Names of the steps that run toggleTheme, and of those that run init.
ToggleOps == {"click", "keyToggle", "apiToggleTheme"}
InitOps == {"scriptInit", "init"}

\* JavaScript truthiness of a string-or-null: null and '' are falsy.
Truthy(v) == v # NULL /\ v # ""

Inverse(t) == IF t = "dark" THEN "light" ELSE "dark"

St == [phase |-> phase, observing |-> observing, dataTheme |-> dataTheme,
       storedTheme |-> storedTheme, themeIconOpacity |-> themeIconOpacity,
       themeIconDarkOpacity |-> themeIconDarkOpacity, ariaLabel |-> ariaLabel,
       transform |-> transform, timers |-> timers,
       bodyVisibility |-> bodyVisibility, bodyTransition |-> bodyTransition,
       loadState |-> loadState, pending |-> pending, events |-> events,
       prevented |-> prevented, alerted |-> alerted,
       prefersDark |-> prefersDark, hidden |-> hidden,
       toggleCount |-> toggleCount]

Apply(s) ==
    /\ phase' = s.phase
    /\ observing' = s.observing
    /\ dataTheme' = s.dataTheme
    /\ storedTheme' = s.storedTheme
    /\ themeIconOpacity' = s.themeIconOpacity
    /\ themeIconDarkOpacity' = s.themeIconDarkOpacity
    /\ ariaLabel' = s.ariaLabel
    /\ transform' = s.transform
    /\ timers' = s.timers
    /\ bodyVisibility' = s.bodyVisibility
    /\ bodyTransition' = s.bodyTransition
    /\ loadState' = s.loadState
    /\ pending' = s.pending
    /\ events' = s.events
    /\ prevented' = s.prevented
    /\ alerted' = s.alerted
    /\ prefersDark' = s.prefersDark
    /\ hidden' = s.hidden
    /\ toggleCount' = s.toggleCount

\* The per-step outputs start empty in every step.
Fresh(s) == [s EXCEPT !.events = <<>>, !.prevented = FALSE, !.alerted = NULL]

(***************************************************************************)
(* Theme functions.                                                        *)
(***************************************************************************)
updateThemeIcons(s, theme) ==
    IF theme = "dark"
    THEN [s EXCEPT !.themeIconOpacity = "0.5", !.themeIconDarkOpacity = "1"]
    ELSE [s EXCEPT !.themeIconOpacity = "1", !.themeIconDarkOpacity = "0.5"]

\* setAttribute queues one mutation record per call once the observer is
\* registered, also when the value written is the value already there.
\* Mutant: a record is queued only when the value changes.
setAttributeDataTheme_onlyOnChange(s, theme) ==
    [s EXCEPT !.dataTheme = theme,
              !.pending = IF s.observing /\ s.dataTheme # theme THEN @ + 1 ELSE @]

setAttributeDataTheme(s, theme) ==
    [s EXCEPT !.dataTheme = theme,
              !.pending = IF s.observing THEN @ + 1 ELSE @]

\* Mutant: the theme is never persisted.
localStorageSetItem_skip(s, theme) == s

localStorageSetItem(s, theme) == [s EXCEPT !.storedTheme = theme]

\* Mutant: the slot receives the attribute's previous value.
setTheme_staleStore(s, theme) ==
    updateThemeIcons(
        localStorageSetItem(setAttributeDataTheme(s, theme), s.dataTheme), theme)

setTheme(s, theme) ==
    updateThemeIcons(localStorageSetItem(setAttributeDataTheme(s, theme), theme), theme)

\* Mutant: the control is scaled down and no timer is scheduled.
animateToggle_noTimer(s) == [s EXCEPT !.transform = "scale(0.95)"]

animateToggle(s) == [s EXCEPT !.transform = "scale(0.95)", !.timers = @ + 1]

\* Mutant: the current theme is read from the slot instead of the attribute.
toggleTheme_fromStorage(s) ==
    LET currentTheme == s.storedTheme
        newTheme == IF currentTheme = "dark" THEN "light" ELSE "dark"
    IN animateToggle(setTheme(s, newTheme))

toggleTheme(s) ==
    LET currentTheme == s.dataTheme
        newTheme == IF currentTheme = "dark" THEN "light" ELSE "dark"
    IN animateToggle(setTheme(s, newTheme))

defaultTheme(s) == IF s.prefersDark THEN "dark" ELSE "light"

\* Mutant: the OS preference is consulted before the saved theme.
loadTheme_osFirst(s) ==
    LET savedTheme == s.storedTheme
    IN IF s.prefersDark
       THEN setTheme(s, "dark")
       ELSE IF Truthy(savedTheme) THEN setTheme(s, savedTheme) ELSE setTheme(s, "light")

\* Mutant: the OS default is applied to the page but not persisted.
loadTheme_defaultNotSaved(s) ==
    LET savedTheme == s.storedTheme
    IN IF Truthy(savedTheme)
       THEN setTheme(s, savedTheme)
       ELSE updateThemeIcons(setAttributeDataTheme(s, defaultTheme(s)), defaultTheme(s))

loadTheme(s) ==
    LET savedTheme == s.storedTheme
    IN IF Truthy(savedTheme)
       THEN setTheme(s, savedTheme)
       ELSE setTheme(s, defaultTheme(s))

\* Mutant: the label names the theme that is active, not the one a toggle leads to.
updateAriaLabel_current(s) ==
    LET currentTheme == s.dataTheme
    IN [s EXCEPT !.ariaLabel = IF currentTheme = "dark"
                               THEN "Switch to dark mode"
                               ELSE "Switch to light mode"]

updateAriaLabel(s) ==
    LET currentTheme == s.dataTheme
    IN [s EXCEPT !.ariaLabel = IF currentTheme = "dark"
                               THEN "Switch to light mode"
                               ELSE "Switch to dark mode"]

init(s) ==
    [updateAriaLabel(loadTheme(s)) EXCEPT !.bodyVisibility = "visible",
                                          !.phase = "ready"]

getCurrentTheme(s) == s.dataTheme

isDarkMode(s) == getCurrentTheme(s) = "dark"

showAlert(s) == [s EXCEPT !.alerted = getCurrentTheme(s)]

(***************************************************************************)
(* Listeners.                                                              *)
(***************************************************************************)
\* Mutant: Space is not handled.
onKeydown_enterOnly(s, key) ==
    IF key = "Enter"
    THEN toggleTheme([s EXCEPT !.prevented = TRUE])
    ELSE s

onKeydown(s, key) ==
    IF key = "Enter" \/ key = " "
    THEN toggleTheme([s EXCEPT !.prevented = TRUE])
    ELSE s

\* Mutant: the listener does not look at the slot.
onSystemChange_always(s, matches) ==
    setTheme(s, IF matches THEN "dark" ELSE "light")

\* Mutant: an OS-driven theme is applied to the page but not persisted.
onSystemChange_notPersisted(s, matches) ==
    IF ~Truthy(s.storedTheme)
    THEN LET newTheme == IF matches THEN "dark" ELSE "light"
         IN updateThemeIcons(setAttributeDataTheme(s, newTheme), newTheme)
    ELSE s

onSystemChange(s, matches) ==
    IF ~Truthy(s.storedTheme)
    THEN setTheme(s, IF matches THEN "dark" ELSE "light")
    ELSE s

onToggleCountClick(s) == [s EXCEPT !.toggleCount = @ + 1]

\* Mutant: the listener does not test that a theme is saved.
onVisibilityChange_noSavedTest(s) ==
    IF ~s.hidden
    THEN LET savedTheme == s.storedTheme
             currentTheme == getCurrentTheme(s)
         IN IF savedTheme # currentTheme
            THEN setTheme(s, savedTheme)
            ELSE s
    ELSE s

\* Mutant: on a mismatch the applied theme is written back over the saved one.
onVisibilityChange_attrWins(s) ==
    IF ~s.hidden
    THEN LET savedTheme == s.storedTheme
             currentTheme == getCurrentTheme(s)
         IN IF Truthy(savedTheme) /\ savedTheme # currentTheme
            THEN setTheme(s, currentTheme)
            ELSE s
    ELSE s

onVisibilityChange(s) ==
    IF ~s.hidden
    THEN LET savedTheme == s.storedTheme
             currentTheme == getCurrentTheme(s)
         IN IF Truthy(savedTheme) /\ savedTheme # currentTheme
            THEN setTheme(s, savedTheme)
            ELSE s
    ELSE s

\* themeObserver's callback: one pass per queued record, each reading the
\* attribute as it is now, relabelling the control and dispatching themechange.
RECURSIVE observerRecords(_, _)
observerRecords(s, n) ==
    IF n = 0 THEN s
    ELSE LET newTheme == s.dataTheme
             s1 == updateAriaLabel(s)
         IN observerRecords([s1 EXCEPT !.events = Append(@, newTheme)], n - 1)

\* Mutant: one event per callback, however many records it was given.
observerCallback_once(s) ==
    [updateAriaLabel(s) EXCEPT !.events = Append(@, s.dataTheme), !.pending = 0]

\* Mutant: the callback applies the theme it has just read again.
observerCallback_reapply(s) ==
    setTheme([observerRecords(s, s.pending) EXCEPT !.pending = 0], s.dataTheme)

observerCallback(s) == [observerRecords(s, s.pending) EXCEPT !.pending = 0]

\* The microtask checkpoint that follows a listener.
Microtask(s) == IF s.pending > 0 THEN observerCallback(s) ELSE s

\* A pointer click on the control: the toggleTheme listener, the microtask
\* checkpoint after it, then the toggleCount listener.
clickTask(s) == onToggleCountClick(Microtask(toggleTheme(s)))

\* A key press on the control: the keydown listener, then the checkpoint.
keydownTask(s, key) == Microtask(onKeydown(s, key))

\* The script's top-level statements, in source order: listeners and the
\* accessibility attributes, init at once unless the document is still
\* loading, then the observer's registration.
registerListeners(s) == [s EXCEPT !.ariaLabel = "Toggle dark mode"]

runScript(s, readyStateLoading) ==
    LET s1 == registerListeners(s)
        s2 == IF readyStateLoading THEN [s1 EXCEPT !.phase = "loading"] ELSE init(s1)
    IN [s2 EXCEPT !.observing = TRUE]

onLoad(s) == [s EXCEPT !.bodyTransition = "none", !.loadState = "timer"]

(***************************************************************************)
(* Initial state: the document before script.js runs.                      *)
(***************************************************************************)
Init ==
    /\ phase = "unloaded"
    /\ observing = FALSE
    /\ dataTheme \in InitialAttrs
    /\ storedTheme \in StoredValues
    /\ themeIconOpacity = ""
    /\ themeIconDarkOpacity = ""
    /\ ariaLabel = NULL
    /\ transform = ""
    /\ timers = 0
    /\ bodyVisibility = ""
    /\ bodyTransition = ""
    /\ loadState = "waiting"
    /\ pending = 0
    /\ events = <<>>
    /\ prevented = FALSE
    /\ alerted = NULL
    /\ prefersDark \in BOOLEAN
    /\ hidden \in BOOLEAN
    /\ toggleCount = 0
    /\ lastOp = "none"
    /\ lastArg = NULL
    /\ preTheme = NA
    /\ preStored = NA
    /\ pre2Theme = NA
    /\ repeated = FALSE
    /\ extDirty = FALSE
    /\ userChose = (storedTheme # NULL)
    /\ beforeReload = NA
    /\ osApplied = 0
    /\ undelivered = 0
    /\ firstWrite = NULL

\* History bookkeeping of a step named op that passed arg to setTheme (NULL: no call).
Record(op, arg) ==
    /\ lastOp' = op
    /\ pre2Theme' = IF op \in ToggleOps /\ lastOp \in ToggleOps THEN preTheme ELSE NA
    /\ lastArg' = arg
    /\ repeated' = (arg # NULL /\ arg = lastArg)
    /\ preTheme' = dataTheme
    /\ preStored' = storedTheme
    /\ extDirty' = IF arg # NULL THEN FALSE ELSE extDirty
    /\ osApplied' = IF op = "osChange" /\ arg # NULL
                    THEN (IF osApplied = 0 THEN 1 ELSE 2)
                    ELSE osApplied
    /\ undelivered' = undelivered + (IF arg # NULL /\ observing THEN 1 ELSE 0) - Len(events')
    /\ firstWrite' = IF arg # NULL /\ observing
                     THEN (IF pending = 0 THEN arg ELSE firstWrite)
                     ELSE IF op = "observer" THEN firstWrite ELSE NULL

\* Theme loadTheme passes to setTheme in the current state.
LoadArg == IF Truthy(storedTheme) THEN storedTheme ELSE defaultTheme(St)

(***************************************************************************)
(* Steps of the page.                                                      *)
(***************************************************************************)
\* script.js runs top to bottom; init runs inside it unless readyState is 'loading'.
ScriptLoad ==
    /\ phase = "unloaded"
    /\ \E readyStateLoading \in BOOLEAN :
          /\ Apply(runScript(Fresh(St), readyStateLoading))
          /\ IF readyStateLoading
             THEN Record("script", NULL)
             ELSE Record("scriptInit", LoadArg)
    /\ UNCHANGED <<userChose, beforeReload>>

DOMContentLoaded ==
    /\ phase = "loading"
    /\ pending = 0
    /\ Apply(Microtask(init(Fresh(St))))
    /\ Record("init", LoadArg)
    /\ UNCHANGED <<userChose, beforeReload>>

Click ==
    /\ phase # "unloaded"
    /\ pending = 0
    /\ timers < MaxTimers
    /\ toggleCount < MaxToggleCount
    /\ Apply(clickTask(Fresh(St)))
    /\ Record("click", Inverse(dataTheme))
    /\ userChose' = TRUE
    /\ beforeReload' = NA

KeyDown ==
    /\ phase # "unloaded"
    /\ pending = 0
    /\ \E key \in Keys :
          /\ key \in {"Enter", " "} => timers < MaxTimers
          /\ Apply(keydownTask(Fresh(St), key))
          /\ IF key \in {"Enter", " "}
             THEN /\ Record("keyToggle", Inverse(dataTheme))
                  /\ userChose' = TRUE
                  /\ beforeReload' = NA
             ELSE /\ Record("keyOther", NULL)
                  /\ UNCHANGED <<userChose, beforeReload>>

\* The OS preference flips and the change listener runs with e.matches = the new value.
OSChange ==
    /\ phase # "unloaded"
    /\ pending = 0
    /\ LET matches == ~prefersDark
           s0 == [Fresh(St) EXCEPT !.prefersDark = matches]
       IN /\ Apply(Microtask(onSystemChange(s0, matches)))
          /\ Record("osChange", IF ~Truthy(storedTheme)
                                THEN (IF matches THEN "dark" ELSE "light")
                                ELSE NULL)
    /\ UNCHANGED <<userChose, beforeReload>>

\* The page is hidden or shown and the visibilitychange listener runs.
VisibilityChange ==
    /\ phase # "unloaded"
    /\ pending = 0
    /\ LET s0 == [Fresh(St) EXCEPT !.hidden = ~hidden]
           syncs == hidden /\ Truthy(storedTheme) /\ storedTheme # dataTheme
       IN /\ Apply(Microtask(onVisibilityChange(s0)))
          /\ Record("visibility", IF syncs THEN storedTheme ELSE NULL)
    /\ UNCHANGED <<userChose, beforeReload>>

\* An animateToggle timer fires.
TimerFire ==
    /\ timers > 0
    /\ pending = 0
    /\ Apply([Fresh(St) EXCEPT !.transform = "scale(1)", !.timers = @ - 1])
    /\ Record("timer", NULL)
    /\ UNCHANGED <<userChose, beforeReload>>

WindowLoad ==
    /\ phase = "ready"
    /\ loadState = "waiting"
    /\ pending = 0
    /\ Apply(onLoad(Fresh(St)))
    /\ Record("load", NULL)
    /\ UNCHANGED <<userChose, beforeReload>>

LoadTimerFire ==
    /\ loadState = "timer"
    /\ pending = 0
    /\ Apply([Fresh(St) EXCEPT !.bodyTransition = "", !.loadState = "done"])
    /\ Record("loadTimer", NULL)
    /\ UNCHANGED <<userChose, beforeReload>>

ShowAlert ==
    /\ phase # "unloaded"
    /\ pending = 0
    /\ Apply(showAlert(Fresh(St)))
    /\ Record("showAlert", NULL)
    /\ UNCHANGED <<userChose, beforeReload>>

\* Another script of the page calls the global setTheme / toggleTheme; several
\* calls may share one task, so the observer's callback runs only afterwards.
ApiSetTheme ==
    /\ phase # "unloaded"
    /\ pending < MaxPending
    /\ \E theme \in Themes :
          /\ Apply(setTheme(Fresh(St), theme))
          /\ Record("apiSetTheme", theme)
    /\ beforeReload' = NA
    /\ UNCHANGED userChose

ApiToggleTheme ==
    /\ phase # "unloaded"
    /\ pending < MaxPending
    /\ timers < MaxTimers
    /\ Apply(toggleTheme(Fresh(St)))
    /\ Record("apiToggleTheme", Inverse(dataTheme))
    /\ beforeReload' = NA
    /\ UNCHANGED userChose

\* The microtask checkpoint at the end of such a task.
ObserverCallback ==
    /\ pending > 0
    /\ Apply(observerCallback(Fresh(St)))
    /\ Record("observer", NULL)
    /\ UNCHANGED <<userChose, beforeReload>>

(***************************************************************************)
(* Steps of the environment.                                               *)
(***************************************************************************)
\* Another execution context (another tab, the developer tools) writes the slot.
ExternalWrite ==
    /\ pending = 0
    /\ \E v \in StoredValues \ {NULL} :
          /\ v # storedTheme
          /\ storedTheme' = v
          /\ osApplied' = IF v = "" THEN 0 ELSE osApplied
    /\ firstWrite' = NULL
    /\ UNCHANGED undelivered
    /\ lastOp' = "externalWrite"
    /\ pre2Theme' = NA
    /\ repeated' = FALSE
    /\ lastArg' = NULL
    /\ preTheme' = dataTheme
    /\ preStored' = storedTheme
    /\ extDirty' = TRUE
    /\ beforeReload' = NA
    /\ events' = <<>>
    /\ prevented' = FALSE
    /\ alerted' = NULL
    /\ UNCHANGED <<phase, observing, dataTheme, themeIconOpacity,
                   themeIconDarkOpacity, ariaLabel, transform, timers,
                   bodyVisibility, bodyTransition, loadState, pending,
                   prefersDark, hidden, toggleCount, userChose>>

\* The slot is cleared from outside (the user clears the site's storage).
ExternalClear ==
    /\ pending = 0
    /\ storedTheme # NULL
    /\ storedTheme' = NULL
    /\ lastOp' = "externalClear"
    /\ pre2Theme' = NA
    /\ repeated' = FALSE
    /\ lastArg' = NULL
    /\ preTheme' = dataTheme
    /\ preStored' = storedTheme
    /\ extDirty' = TRUE
    /\ userChose' = FALSE
    /\ osApplied' = 0
    /\ firstWrite' = NULL
    /\ UNCHANGED undelivered
    /\ beforeReload' = NA
    /\ events' = <<>>
    /\ prevented' = FALSE
    /\ alerted' = NULL
    /\ UNCHANGED <<phase, observing, dataTheme, themeIconOpacity,
                   themeIconDarkOpacity, ariaLabel, transform, timers,
                   bodyVisibility, bodyTransition, loadState, pending,
                   prefersDark, hidden, toggleCount>>

\* The page is reloaded: a new document, the same storage.
Reload ==
    /\ phase # "unloaded"
    /\ pending = 0
    /\ phase' = "unloaded"
    /\ observing' = FALSE
    /\ dataTheme' \in InitialAttrs
    /\ themeIconOpacity' = ""
    /\ themeIconDarkOpacity' = ""
    /\ ariaLabel' = NULL
    /\ transform' = ""
    /\ timers' = 0
    /\ bodyVisibility' = ""
    /\ bodyTransition' = ""
    /\ loadState' = "waiting"
    /\ events' = <<>>
    /\ prevented' = FALSE
    /\ alerted' = NULL
    /\ prefersDark' \in BOOLEAN
    /\ hidden' \in BOOLEAN
    /\ toggleCount' = 0
    /\ lastOp' = "reload"
    /\ pre2Theme' = NA
    /\ repeated' = FALSE
    /\ lastArg' = NULL
    /\ preTheme' = dataTheme
    /\ preStored' = storedTheme
    /\ beforeReload' = IF phase = "ready" /\ ~extDirty THEN dataTheme ELSE NA
    /\ undelivered' = 0
    /\ firstWrite' = NULL
    /\ UNCHANGED osApplied
    /\ UNCHANGED <<storedTheme, pending, extDirty, userChose>>

Next ==
    \/ ScriptLoad
    \/ DOMContentLoaded
    \/ Click
    \/ KeyDown
    \/ OSChange
    \/ VisibilityChange
    \/ TimerFire
    \/ WindowLoad
    \/ LoadTimerFire
    \/ ShowAlert
    \/ ApiSetTheme
    \/ ApiToggleTheme
    \/ ObserverCallback
    \/ ExternalWrite
    \/ ExternalClear
    \/ Reload

Spec == Init /\ [][Next]_vars

(***************************************************************************)
(* Properties.                                                             *)
(***************************************************************************)
\* Theme the OS reports in the current state.
osTheme == IF prefersDark THEN "dark" ELSE "light"

\* C1: after init (run by the script itself or at DOMContentLoaded), a saved
\* theme (a non-empty string in the slot) is the applied theme whatever the OS
\* prefers; with no saved theme (the key absent, or '' which the code reads
\* as absent) the applied theme is 'dark' if the OS prefers dark, else 'light'.
C1_InitialResolution ==
    lastOp \in InitOps =>
        /\ Truthy(preStored) => dataTheme = preStored
        /\ (~Truthy(preStored) /\ prefersDark) => dataTheme = "dark"
        /\ (~Truthy(preStored) /\ ~prefersDark) => dataTheme = "light"

\* C1 witness: init ran with 'dark' saved while the OS prefers light.
C1_Witness ==
    /\ lastOp \in InitOps
    /\ preStored = "dark"
    /\ ~prefersDark
    /\ dataTheme = "dark"

\* C2: a toggle from applied theme T in {light, dark}, whatever the slot held,
\* leaves attribute = slot = inverse(T); a second toggle right after it leaves
\* attribute = slot = T.
C2_ToggleInverse ==
    /\ (lastOp \in ToggleOps /\ preTheme \in Themes) =>
          /\ dataTheme = Inverse(preTheme)
          /\ storedTheme = Inverse(preTheme)
          /\ toggleTheme(St).dataTheme = preTheme
          /\ toggleTheme(St).storedTheme = preTheme
    /\ (lastOp \in ToggleOps /\ pre2Theme \in Themes) =>
          /\ dataTheme = pre2Theme
          /\ storedTheme = pre2Theme

\* C2 witness: two toggles in a row from 'dark', the second a click, ending at
\* 'dark' again in both stores.
C2_Witness ==
    /\ lastOp = "click"
    /\ pre2Theme = "dark"
    /\ preTheme = "light"
    /\ dataTheme = "dark"
    /\ storedTheme = "dark"

\* C3: when a page whose init had completed, with no write to the slot from
\* outside, is reloaded, the theme applied by the next init is the theme that
\* was applied just before the reload, whatever the OS prefers by then.
C3_PersistsAcrossReload ==
    (lastOp \in InitOps /\ beforeReload # NA) => dataTheme = beforeReload

\* C3 witness: 'dark' was applied, the page was reloaded with the OS preferring
\* light, and init applied 'dark' again.
C3_Witness ==
    /\ lastOp \in InitOps
    /\ beforeReload = "dark"
    /\ ~prefersDark
    /\ dataTheme = "dark"

\* C4 (as claimed): every setTheme call made by init, a toggle activation, the
\* OS-preference listener or the visibility listener that changes the attribute
\* is followed by exactly one themechange event carrying the value written.
C4_NotificationFidelity ==
    (/\ lastOp \in InitOps \cup {"click", "keyToggle", "osChange", "visibility"}
     /\ lastArg # NULL
     /\ dataTheme # preTheme)
        => events = <<lastArg>>

\* C5: an OS-preference notification applies the OS-reported theme to the
\* attribute and the slot when the slot is empty, and otherwise leaves the
\* attribute, the slot and the icon opacities as they were and causes no
\* broadcast.
C5_SystemListener ==
    [][lastOp' = "osChange" =>
          IF ~Truthy(storedTheme)
          THEN /\ dataTheme' = osTheme'
               /\ storedTheme' = osTheme'
          ELSE /\ UNCHANGED <<dataTheme, storedTheme, themeIconOpacity,
                              themeIconDarkOpacity>>
               /\ events' = <<>>
               /\ pending' = 0]_vars

\* C5 witness: a notification reporting the other theme was ignored because a
\* theme was saved.
C5_Witness ==
    /\ lastOp = "osChange"
    /\ Truthy(preStored)
    /\ dataTheme \in Themes
    /\ dataTheme # osTheme
    /\ events = <<>>

\* C6 (as claimed): while no toggle activation has been recorded since the slot
\* was last cleared, the slot of an initialised page is empty and an
\* OS-preference notification switches the applied theme to the OS's.
C6_NoChoiceFollowsSystem ==
    (phase = "ready" /\ ~userChose) =>
        IF lastOp = "osChange" THEN dataTheme = osTheme ELSE ~Truthy(storedTheme)

\* C7: a visibilitychange that finds the page visible and a saved theme that
\* differs from the applied one applies the saved theme and broadcasts it; a
\* visibilitychange with the page hidden, the two equal, or the slot empty
\* changes nothing and broadcasts nothing.
C7_VisibilityReconciler ==
    [][lastOp' = "visibility" =>
          IF ~hidden' /\ Truthy(storedTheme) /\ storedTheme # dataTheme
          THEN /\ dataTheme' = storedTheme
               /\ storedTheme' = storedTheme
               /\ events' = <<storedTheme>>
          ELSE /\ UNCHANGED <<dataTheme, storedTheme, themeIconOpacity,
                              themeIconDarkOpacity, ariaLabel>>
               /\ events' = <<>>
               /\ pending' = 0]_vars

\* C7 witness: the page became visible with 'light' saved and 'dark' applied,
\* and 'light' was applied and broadcast.
C7_Witness ==
    /\ lastOp = "visibility"
    /\ ~hidden
    /\ preStored = "light"
    /\ preTheme = "dark"
    /\ dataTheme = "light"
    /\ events = <<"light">>

\* C8 (as claimed): at init a saved string that is neither 'light' nor 'dark'
\* counts as no saved theme: the OS preference decides, and the applied theme
\* after init is 'light' or 'dark'.
C8_MalformedIsAbsent ==
    lastOp \in InitOps =>
        /\ dataTheme \in Themes
        /\ preStored \notin Themes => dataTheme = osTheme

\* C9: once init has completed, in every state in which a handler can start,
\* the slot and the attribute hold the same value unless another context has
\* written the slot since the last setTheme.
\* The same holds where a listener starts inside a step: where the observer's
\* callback and the second click listener start after toggleTheme, and after a
\* direct setTheme.
C9_StoresAgree ==
    /\ (phase = "ready" /\ ~extDirty) => storedTheme = dataTheme
    /\ phase = "loading" => init(St).storedTheme = init(St).dataTheme
    /\ toggleTheme(St).storedTheme = toggleTheme(St).dataTheme
    /\ \A t \in Themes : setTheme(St, t).storedTheme = setTheme(St, t).dataTheme

\* C9 witness: the observer's callback has just run after two writes made in one
\* task, on an initialised page no other context wrote to.
C9_Witness ==
    /\ phase = "ready"
    /\ ~extDirty
    /\ lastOp = "observer"
    /\ Len(events) = 2
    /\ storedTheme = dataTheme

\* C10: from every state and for each theme t, setTheme(t) applied twice leaves
\* the attribute, the slot and both icon opacities as setTheme(t) applied once;
\* and a step that repeats the previous step's setTheme(t) leaves both stores
\* as it found them.
C10_SetThemeIdempotent ==
    /\ \A t \in Themes :
          LET once == setTheme(St, t)
              twice == setTheme(once, t)
          IN /\ twice.dataTheme = once.dataTheme
             /\ twice.storedTheme = once.storedTheme
             /\ twice.themeIconOpacity = once.themeIconOpacity
             /\ twice.themeIconDarkOpacity = once.themeIconDarkOpacity
    /\ repeated => (dataTheme = preTheme /\ storedTheme = preStored)

\* C10 witness: setTheme('dark') has run twice in a row, the second time called
\* by another script in the task of the first.
C10_Witness ==
    /\ lastOp = "apiSetTheme"
    /\ repeated
    /\ lastArg = "dark"
    /\ preTheme = "dark"
    /\ preStored = "dark"
    /\ pending = 2
    /\ dataTheme = "dark"
    /\ storedTheme = "dark"
    /\ themeIconOpacity = "0.5"
    /\ themeIconDarkOpacity = "1"

\* C11: on an initialised page with no observer callback outstanding, applied
\* theme 'dark' goes with dark icon opacity '1', light icon opacity '0.5' and
\* label 'Switch to light mode'; applied theme 'light' with light icon '1', dark
\* icon '0.5' and label 'Switch to dark mode'.
C11_DisplayTracksTheme ==
    (phase = "ready" /\ pending = 0) =>
        /\ dataTheme = "dark" =>
              /\ themeIconDarkOpacity = "1"
              /\ themeIconOpacity = "0.5"
              /\ ariaLabel = "Switch to light mode"
        /\ dataTheme = "light" =>
              /\ themeIconOpacity = "1"
              /\ themeIconDarkOpacity = "0.5"
              /\ ariaLabel = "Switch to dark mode"

\* C11 witness: a click has switched an initialised page from 'light' to 'dark'
\* and the icons and the label have followed.
C11_Witness ==
    /\ phase = "ready"
    /\ pending = 0
    /\ lastOp = "click"
    /\ preTheme = "light"
    /\ dataTheme = "dark"
    /\ themeIconDarkOpacity = "1"
    /\ themeIconOpacity = "0.5"
    /\ ariaLabel = "Switch to light mode"

\* C12 (as claimed): on an initialised page getCurrentTheme() returns 'dark' or
\* 'light', namely the attribute's value, and isDarkMode() is true exactly when
\* that value is 'dark'.
C12_Accessors ==
    phase = "ready" =>
        /\ getCurrentTheme(St) \in Themes
        /\ getCurrentTheme(St) = dataTheme
        /\ isDarkMode(St) = (getCurrentTheme(St) = "dark")

\* The state fields a toggle activation is compared on.
ThemeView(s) ==
    <<s.dataTheme, s.storedTheme, s.themeIconOpacity, s.themeIconDarkOpacity,
      s.ariaLabel, s.events>>

\* C13: wherever the control can be activated, a keydown with Enter or Space
\* leaves the attribute, the slot, the icon opacities, the label and the
\* broadcast exactly as a click does, and suppresses the default action; a
\* keydown with another key leaves them as they were and suppresses nothing.
C13_ActivationEquivalence ==
    (phase # "unloaded" /\ pending = 0) =>
        /\ \A key \in {"Enter", " "} :
              /\ ThemeView(keydownTask(Fresh(St), key)) = ThemeView(clickTask(Fresh(St)))
              /\ keydownTask(Fresh(St), key).prevented
        /\ \A key \in Keys \ {"Enter", " "} :
              /\ ThemeView(keydownTask(Fresh(St), key)) = ThemeView(Fresh(St))
              /\ ~keydownTask(Fresh(St), key).prevented

\* C13 witness: Enter or Space has toggled the theme, the default action was
\* suppressed and the new theme was broadcast once.
C13_Witness ==
    /\ lastOp = "keyToggle"
    /\ prevented
    /\ preTheme \in Themes
    /\ dataTheme = Inverse(preTheme)
    /\ storedTheme = dataTheme
    /\ events = <<dataTheme>>

\* C14: between two emptyings of the slot from outside (the key removed, or ''
\* written) the OS-preference listener applies a theme at most once: once it
\* has, the slot holds a theme, and a later notification changes nothing.
C14_OverrideSelfDefeat ==
    /\ osApplied # 2
    /\ osApplied = 1 => Truthy(storedTheme)
    /\ (lastOp = "osChange" /\ osApplied = 1 /\ lastArg = NULL) =>
          /\ dataTheme = preTheme
          /\ storedTheme = preStored
          /\ events = <<>>

\* C14 witness: after one OS-driven application, a notification reporting the
\* other theme has been ignored.
C14_Witness ==
    /\ lastOp = "osChange"
    /\ osApplied = 1
    /\ lastArg = NULL
    /\ dataTheme \in Themes
    /\ dataTheme # osTheme
    /\ storedTheme = dataTheme

\* Names of the steps that run callbacks which are not to touch the theme.
PassiveOps == {"observer", "showAlert", "load", "loadTimer", "timer", "keyOther"}

\* Names of the steps in which the script writes the attribute, and the reload
\* that replaces the document.
WritingOps == InitOps \cup ToggleOps \cup {"osChange", "visibility", "apiSetTheme", "reload"}

\* C15: the observer's callback, updateAriaLabel, showAlert, the load handler
\* and the timer callbacks leave the attribute and the slot as they are, the
\* observer's callback queues no new record, and the attribute changes only in
\* steps that run init, toggleTheme, the OS-preference listener, the visibility
\* listener or a direct setTheme.
C15_NoFeedback ==
    [][/\ lastOp' \in PassiveOps =>
             /\ UNCHANGED <<dataTheme, storedTheme>>
             /\ pending' = 0
       /\ dataTheme' # dataTheme => lastOp' \in WritingOps
       /\ observerCallback(St).dataTheme = dataTheme
       /\ observerCallback(St).storedTheme = storedTheme
       /\ observerCallback(St).pending = 0
       /\ updateAriaLabel(St).dataTheme = dataTheme
       /\ updateAriaLabel(St).storedTheme = storedTheme
       /\ showAlert(St).dataTheme = dataTheme
       /\ showAlert(St).storedTheme = storedTheme]_vars

\* C15 witness: the observer's callback has delivered one write's record and
\* left the attribute, the slot and its own queue alone.
C15_Witness ==
    /\ lastOp = "observer"
    /\ Len(events) = 1
    /\ pending = 0
    /\ dataTheme = preTheme
    /\ storedTheme = preStored

\* C16: a toggle leaves the control at 'scale(0.95)' with a timer scheduled; a
\* timer that fires leaves it at 'scale(1)', also while a later toggle's timer
\* is still to fire; so with no timer left the control is never scaled down.
C16_AnimationReverts ==
    /\ lastOp \in ToggleOps => (transform = "scale(0.95)" /\ timers >= 1)
    /\ lastOp = "timer" => transform = "scale(1)"
    /\ transform = "scale(0.95)" => timers >= 1
    /\ timers = 0 => transform \in {"", "scale(1)"}

\* C16 witness: two toggles overlapped; the first timer has fired and reset
\* the control while the second is still scheduled.
C16_Witness ==
    /\ lastOp = "timer"
    /\ timers = 1
    /\ transform = "scale(1)"

\* C17: every themechange event dispatched in a step carries the attribute's
\* value as it is when the callback runs, and a callback given n records
\* dispatches n events, all with that value, whatever the writes had written.
C17_EventCarriesCurrentTheme ==
    /\ \A i \in 1..Len(events) : events[i] = dataTheme
    /\ pending > 0 =>
          LET s == observerCallback(Fresh(St))
          IN /\ Len(s.events) = pending
             /\ \A i \in 1..Len(s.events) : s.events[i] = dataTheme

\* C17 witness: one task wrote 'dark' and then 'light'; the callback dispatched
\* two events and both carry 'light'.
C17_Witness ==
    /\ lastOp = "observer"
    /\ firstWrite = "dark"
    /\ dataTheme = "light"
    /\ events = <<"light", "light">>

\* C18: the events dispatched so far plus the records still queued number the
\* attribute writes setTheme made since the observer was registered: a write
\* of the value already there counts, and the write of an init that ran inside
\* the script, before the registration, does not and is never broadcast.
C18_EventsCountWrites ==
    /\ undelivered = pending
    /\ lastOp = "scriptInit" => (events = <<>> /\ pending = 0)
    /\ (lastOp \in {"init", "click", "keyToggle", "osChange", "visibility"}
        /\ lastArg # NULL) => events = <<lastArg>>

\* C18 witness: init ran at DOMContentLoaded and wrote the value the attribute
\* already had, and one event was dispatched for it.
C18_Witness ==
    /\ lastOp = "init"
    /\ preTheme = dataTheme
    /\ lastArg = dataTheme
    /\ events = <<dataTheme>>
    /\ undelivered = 0

\* The slot holds a theme that is not the applied one, on an initialised page.
Drift == phase = "ready" /\ Truthy(storedTheme) /\ storedTheme # dataTheme

\* C19: a write or removal of the slot from outside leaves the attribute, the
\* icons, the label and the record queue alone and broadcasts nothing; while
\* the slot then holds another theme than the applied one, a visibilitychange
\* that finds the page visible applies the saved theme, a toggle writes the
\* inverse of the applied theme to both, and the other callbacks, an ignored OS
\* notification and a visibilitychange that finds the page hidden keep both.
C19_ExternalWriteDrift ==
    [][/\ lastOp' \in {"externalWrite", "externalClear"} =>
             /\ UNCHANGED <<dataTheme, themeIconOpacity, themeIconDarkOpacity,
                            ariaLabel, pending>>
             /\ events' = <<>>
       /\ Drift =>
             /\ (lastOp' = "visibility" /\ ~hidden') =>
                   /\ dataTheme' = storedTheme
                   /\ storedTheme' = storedTheme
             /\ lastOp' \in ToggleOps =>
                   /\ dataTheme' = Inverse(dataTheme)
                   /\ storedTheme' = Inverse(dataTheme)
             /\ (\/ lastOp' \in PassiveOps \cup {"osChange"}
                 \/ (lastOp' = "visibility" /\ hidden')) =>
                   UNCHANGED <<dataTheme, storedTheme>>]_vars

\* C19 witness: with 'light' applied another context left a different string
\* in the slot, and a click then wrote 'dark' to both.
C19_Witness ==
    /\ lastOp = "click"
    /\ phase = "ready"
    /\ preStored = Malformed
    /\ preTheme = "light"
    /\ dataTheme = "dark"
    /\ storedTheme = "dark"

====
